---- MODULE Spec2Model ----
(***************************************************************************)
(* EduAssistant.AI backend: the RAG service (app/services/rag_service.py)  *)
(* and the chat endpoint that drives it (app/api/routes/rag.py).           *)
(*                                                                         *)
(* One process holds one RAGService (rag.py:17).  Its construction reads   *)
(* the module-level availability flags and the API keys, walks the         *)
(* provider fallbacks and loads the grammar data.  Afterwards the          *)
(* endpoints call generate_response, process_document and                  *)
(* get_system_status on that single object.                                *)
(*                                                                         *)
(* Strings that the code only passes around (query text, answers) are      *)
(* abstracted to tags; every branch the code takes on them is kept.        *)
(* A confidence is kept as an integer number of hundredths (0.85 -> 85).   *)
(***************************************************************************)
EXTENDS Integers, Sequences, FiniteSets, TLC

VARIABLES env, phase, svc, initLog, memory, reqs, chatMessages,
          backgroundTasks, lastStatus, documents, uploads, ingest,
          db, resp, inflight, today

\* the variables of the RAG service and of its endpoints
ragVars == <<env, phase, svc, initLog, memory, reqs, chatMessages,
             backgroundTasks, lastStatus, documents, uploads, ingest>>

vars == <<env, phase, svc, initLog, memory, reqs, chatMessages,
          backgroundTasks, lastStatus, documents, uploads, ingest,
          db, resp, inflight, today>>

(***************************************************************************)
(* Bounds of the model.                                                    *)
(***************************************************************************)
\* chat requests of one run of the chat-traffic specification
MaxRequests == 2
\* chat requests of one run of the single-call and whole-service specifications
ServiceRequests == 1
\* users (sessions) that send chat requests
NumUsers == 2
\* turns in a request's conversation_history
MaxHist == 1
\* distinct uploaded file names
NumFiles == 1
\* words in the text of a chat message
MaxQueryWords == 2
\* upload requests of one run of the ingestion specification
MaxUploads == 2
\* documents in the body of one upload request
MaxDocs == 1
\* courses created in one run of the course-management specification
MaxCourses == 1
\* lessons created in one run
MaxLessons == 1
\* assignments created in one run
MaxAssignments == 1
\* largest max_attempts a teacher gives an assignment
MaxAttempts == 2
\* enroll and unenroll requests of one run of the enrollment specification
MaxCalls == 3
\* rows of the enrollment table in one run of the student specification
MaxEnrollments == 2
\* rows of the submission table in one run
MaxSubmissions == 3
\* study sessions tracked in one run of the study specification
MaxSessions == 2
\* questions answered in one study session
MaxQuestions == 4
\* calendar days a run of the study specification spans
MaxDays == 2
\* students who track study sessions
NumStudents == 1

(***************************************************************************)
(* Program constants.                                                      *)
(***************************************************************************)
\* generate_response: conversation_history[-5:]
HistoryWindow == 5
\* generate_response: "confidence": 0.85
PlaceholderConfidence == 85
\* the three fallback results: "confidence": 0.0
ZeroConfidence == 0
\* download_sample_grammar / create_sample_grammar_data: three topics
NumSampleTopics == 3
\* _analyze_weaknesses: session.accuracy_rate < 70
WeaknessThreshold == 70
\* _update_weakness_record: weakness.accuracy_rate > 85
ResolvedThreshold == 85
\* _update_weakness_record: previous_accuracy + 5, previous_accuracy - 5
TrendMargin == 5
\* _generate_weakness_recommendations: accuracy_rate < 50
BasicsThreshold == 50

Users == 1..NumUsers
Filenames == 1..NumFiles

None == "None"

(***************************************************************************)
(* The environment the module is imported in: the availability flags set   *)
(* by the guarded imports, whether each API key is set, and whether each   *)
(* provider's constructor would succeed when called.  A constructor whose  *)
(* class failed to import cannot succeed.                                  *)
(***************************************************************************)
Envs ==
    { e \in [ LLAMAINDEX_AVAILABLE : BOOLEAN,
              HUGGINGFACE_EMBEDDINGS_AVAILABLE : BOOLEAN,
              HUGGINGFACE_LLM_AVAILABLE : BOOLEAN,
              OPENAI_AVAILABLE : BOOLEAN,
              OPENAI_API_KEY : BOOLEAN,
              HUGGINGFACE_API_KEY : BOOLEAN,
              hfEmbeddingInits : BOOLEAN,
              openaiEmbeddingInits : BOOLEAN,
              hfLLMInits : BOOLEAN,
              openaiLLMInits : BOOLEAN ] :
        /\ e.hfEmbeddingInits => e.HUGGINGFACE_EMBEDDINGS_AVAILABLE
        /\ e.hfLLMInits => e.HUGGINGFACE_LLM_AVAILABLE
        /\ e.openaiEmbeddingInits => e.OPENAI_AVAILABLE
        /\ e.openaiLLMInits => e.OPENAI_AVAILABLE }

\* Environments in which every importable provider has its key and works.
HealthyEnvs ==
    { e \in Envs :
        /\ e.hfEmbeddingInits = e.HUGGINGFACE_EMBEDDINGS_AVAILABLE
        /\ e.hfLLMInits = e.HUGGINGFACE_LLM_AVAILABLE
        /\ e.openaiEmbeddingInits = e.OPENAI_AVAILABLE
        /\ e.openaiLLMInits = e.OPENAI_AVAILABLE
        /\ e.OPENAI_API_KEY = e.OPENAI_AVAILABLE
        /\ e.HUGGINGFACE_API_KEY = e.HUGGINGFACE_LLM_AVAILABLE }

\* Environments with nothing optional installed, or with everything
\* installed, configured and working.
PlainEnvs ==
    { e \in HealthyEnvs :
        /\ e.HUGGINGFACE_EMBEDDINGS_AVAILABLE = e.LLAMAINDEX_AVAILABLE
        /\ e.HUGGINGFACE_LLM_AVAILABLE = e.LLAMAINDEX_AVAILABLE
        /\ e.OPENAI_AVAILABLE = e.LLAMAINDEX_AVAILABLE }

Attempt(provider, ok) == [provider |-> provider, ok |-> ok]

(***************************************************************************)
(* RAGService.create_mock_embedding / create_mock_llm                      *)
(***************************************************************************)
create_mock_embedding == "MockEmbedding"

create_mock_llm == "MockLLM"

(***************************************************************************)
(* initialize_models, embedding part (lines 106-127): an if / elif / else  *)
(* whose first two arms each fall back to the mock on an exception.        *)
(* The result is the model and the constructors that were called.          *)
(***************************************************************************)
\* faulty variant: a failed constructor leaves the model unset
InitEmbedding_NoFallback(e) ==
    IF e.HUGGINGFACE_EMBEDDINGS_AVAILABLE
    THEN IF e.hfEmbeddingInits
         THEN [model |-> "HuggingFaceEmbedding",
               log |-> <<Attempt("HuggingFaceEmbedding", TRUE)>>]
         ELSE [model |-> None,
               log |-> <<Attempt("HuggingFaceEmbedding", FALSE)>>]
    ELSE IF e.OPENAI_API_KEY /\ e.OPENAI_AVAILABLE
    THEN IF e.openaiEmbeddingInits
         THEN [model |-> "OpenAIEmbedding",
               log |-> <<Attempt("OpenAIEmbedding", TRUE)>>]
         ELSE [model |-> None,
               log |-> <<Attempt("OpenAIEmbedding", FALSE)>>]
    ELSE [model |-> create_mock_embedding,
          log |-> <<Attempt("MockEmbedding", TRUE)>>]

InitEmbedding(e) ==
    IF e.HUGGINGFACE_EMBEDDINGS_AVAILABLE
    THEN IF e.hfEmbeddingInits
         THEN [model |-> "HuggingFaceEmbedding",
               log |-> <<Attempt("HuggingFaceEmbedding", TRUE)>>]
         ELSE [model |-> create_mock_embedding,
               log |-> <<Attempt("HuggingFaceEmbedding", FALSE),
                         Attempt("MockEmbedding", TRUE)>>]
    ELSE IF e.OPENAI_API_KEY /\ e.OPENAI_AVAILABLE
    THEN IF e.openaiEmbeddingInits
         THEN [model |-> "OpenAIEmbedding",
               log |-> <<Attempt("OpenAIEmbedding", TRUE)>>]
         ELSE [model |-> create_mock_embedding,
               log |-> <<Attempt("OpenAIEmbedding", FALSE),
                         Attempt("MockEmbedding", TRUE)>>]
    ELSE [model |-> create_mock_embedding,
          log |-> <<Attempt("MockEmbedding", TRUE)>>]

(***************************************************************************)
(* initialize_models, LLM part (lines 129-162): HuggingFace when its key   *)
(* is set and its class imported, then OpenAI if llm_initialized is still  *)
(* false, then the mock.                                                   *)
(***************************************************************************)
\* faulty variant: the two hosted models are tried in the other order
InitLLM_OpenAIFirst(e) ==
    LET tryOA == e.OPENAI_API_KEY /\ e.OPENAI_AVAILABLE
        oaLog == IF tryOA
                 THEN <<Attempt("OpenAI", e.openaiLLMInits)>>
                 ELSE <<>>
        initialized1 == tryOA /\ e.openaiLLMInits
        tryHF == ~initialized1 /\ e.HUGGINGFACE_API_KEY
                              /\ e.HUGGINGFACE_LLM_AVAILABLE
        hfLog == IF tryHF
                 THEN <<Attempt("HuggingFaceLLM", e.hfLLMInits)>>
                 ELSE <<>>
        initialized2 == initialized1 \/ (tryHF /\ e.hfLLMInits)
    IN  IF initialized1
        THEN [model |-> "OpenAI", log |-> oaLog \o hfLog]
        ELSE IF initialized2
        THEN [model |-> "HuggingFaceLLM", log |-> oaLog \o hfLog]
        ELSE [model |-> create_mock_llm,
              log |-> oaLog \o hfLog \o <<Attempt("MockLLM", TRUE)>>]

InitLLM(e) ==
    LET tryHF == e.HUGGINGFACE_API_KEY /\ e.HUGGINGFACE_LLM_AVAILABLE
        hfLog == IF tryHF
                 THEN <<Attempt("HuggingFaceLLM", e.hfLLMInits)>>
                 ELSE <<>>
        initialized1 == tryHF /\ e.hfLLMInits
        tryOA == ~initialized1 /\ e.OPENAI_API_KEY /\ e.OPENAI_AVAILABLE
        oaLog == IF tryOA
                 THEN <<Attempt("OpenAI", e.openaiLLMInits)>>
                 ELSE <<>>
        initialized2 == initialized1 \/ (tryOA /\ e.openaiLLMInits)
    IN  IF initialized1
        THEN [model |-> "HuggingFaceLLM", log |-> hfLog \o oaLog]
        ELSE IF initialized2
        THEN [model |-> "OpenAI", log |-> hfLog \o oaLog]
        ELSE [model |-> create_mock_llm,
              log |-> hfLog \o oaLog \o <<Attempt("MockLLM", TRUE)>>]

(***************************************************************************)
(* initialize_models (lines 97-179).  Without LlamaIndex both models are   *)
(* the mocks and nothing else is tried.  Assigning Settings.embed_model    *)
(* and Settings.llm (164-170) changes no field of the service.  Every call *)
(* that can raise sits in an inner try, so the outer handler (174-179),    *)
(* which would again install both mocks, is not reached.                   *)
(***************************************************************************)
initialize_models(e) ==
    IF ~e.LLAMAINDEX_AVAILABLE
    THEN [embedding_model |-> create_mock_embedding,
          llm_model |-> create_mock_llm,
          log |-> <<Attempt("MockEmbedding", TRUE), Attempt("MockLLM", TRUE)>>]
    ELSE [embedding_model |-> InitEmbedding(e).model,
          llm_model |-> InitLLM(e).model,
          log |-> InitEmbedding(e).log \o InitLLM(e).log]

(***************************************************************************)
(* What can go wrong while RAGService() runs after the models are chosen:  *)
(* ChatMemoryBuffer.from_defaults may raise, the grammar directory may be  *)
(* unusable (Path.exists / mkdir raise), the directory may hold files or   *)
(* none that can be read, and building the index may raise before the      *)
(* index is assigned, after it (while the chat engine is built or the      *)
(* temporary directory removed), or not at all.                            *)
(***************************************************************************)
InitOutcomes ==
    [ memoryInits : BOOLEAN,
      grammarPathOk : BOOLEAN,
      filesLoaded : {0, NumSampleTopics},
      indexing : {"index_raises", "engine_raises", "ok"} ]

Unconstructed ==
    [ embedding_model |-> None, llm_model |-> None, index |-> None,
      chat_engine |-> None, memory |-> None, japanese_grammar_data |-> 0 ]

(***************************************************************************)
(* RAGService.create_fallback_chat_engine                                  *)
(***************************************************************************)
create_fallback_chat_engine(s) ==
    [s EXCEPT !.chat_engine = "FallbackChatEngine"]

(***************************************************************************)
(* RAGService.create_sample_grammar_data: three in-memory topics; it sets  *)
(* no chat engine.                                                         *)
(***************************************************************************)
create_sample_grammar_data(s) ==
    [s EXCEPT !.japanese_grammar_data = NumSampleTopics]

(***************************************************************************)
(* RAGService.create_grammar_index (lines 314-378)                         *)
(***************************************************************************)
create_grammar_index(e, s, o) ==
    IF ~e.LLAMAINDEX_AVAILABLE
    THEN create_fallback_chat_engine(s)
    ELSE IF s.japanese_grammar_data = 0
    THEN create_fallback_chat_engine(s)
    ELSE IF o.indexing = "index_raises"
    THEN create_fallback_chat_engine(s)
    ELSE IF o.indexing = "engine_raises"
    THEN create_fallback_chat_engine([s EXCEPT !.index = "VectorStoreIndex"])
    ELSE [s EXCEPT !.index = "VectorStoreIndex",
                   !.chat_engine = "CondensePlusContextChatEngine"]

(***************************************************************************)
(* RAGService.load_japanese_grammar_data (lines 201-221).                  *)
(* download_sample_grammar and load_grammar_files swallow their own        *)
(* errors, so what they leave is the number of files read.                 *)
(***************************************************************************)
load_japanese_grammar_data(e, s, o) ==
    IF ~o.grammarPathOk
    THEN create_sample_grammar_data(s)
    ELSE create_grammar_index(
             e, [s EXCEPT !.japanese_grammar_data = o.filesLoaded], o)

(***************************************************************************)
(* RAGService.__init__ (lines 80-95) as a function of the environment and  *)
(* of what failed.                                                         *)
(***************************************************************************)
InitMemory(e, o) ==
    IF e.LLAMAINDEX_AVAILABLE /\ o.memoryInits
    THEN "ChatMemoryBuffer"
    ELSE None

Construct(e, o) ==
    LET m == initialize_models(e)
        s0 == [Unconstructed EXCEPT !.memory = InitMemory(e, o),
                                    !.embedding_model = m.embedding_model,
                                    !.llm_model = m.llm_model]
    IN  load_japanese_grammar_data(e, s0, o)

\* create_grammar_index reached line 348 and VectorStoreIndex(...) returned
IndexBuilt(e, o) ==
    /\ o.grammarPathOk
    /\ e.LLAMAINDEX_AVAILABLE
    /\ o.filesLoaded > 0
    /\ o.indexing # "index_raises"

\* the constructors called, in order: the providers, then the index
ConstructLog(e, o) ==
    initialize_models(e).log \o
    ( IF IndexBuilt(e, o)
      THEN <<Attempt("VectorStoreIndex", TRUE)>>
      ELSE <<>> )

(***************************************************************************)
(* What the vector index holds: create_grammar_index (lines 332-348)       *)
(* writes one file per grammar topic and builds the index from the nodes   *)
(* of those files.  No other code adds to an index.                        *)
(***************************************************************************)
IndexEntries(s) ==
    IF s.index = None
    THEN {}
    ELSE { [source |-> "grammar", id |-> t] :
             t \in 1..s.japanese_grammar_data }

(***************************************************************************)
(* RAGService.get_system_status (lines 651-662); last_updated is left out. *)
(***************************************************************************)
\* no status has been returned yet
NoStatus ==
    [ status |-> None,
      models_loaded |->
          [ embedding_model |-> FALSE, llm_model |-> FALSE,
            index_created |-> FALSE ],
      grammar_data_files |-> 0 ]

SystemStatus(s) ==
    [ status |-> "operational",
      models_loaded |->
          [ embedding_model |-> s.embedding_model # None,
            llm_model |-> s.llm_model # None,
            index_created |-> s.index # None ],
      grammar_data_files |-> s.japanese_grammar_data ]

(***************************************************************************)
(* Chat requests.  A conversation_history is a list of dicts; the code     *)
(* only asks of each whether its "message" and its "response" are          *)
(* non-empty.                                                              *)
(***************************************************************************)
Turns == [message : BOOLEAN, response : BOOLEAN]

Histories == UNION { [1..n -> Turns] : n \in 0..MaxHist }

NoResult == [response |-> None, confidence |-> ZeroConfidence, keys |-> {}]

(***************************************************************************)
(* ChatRequest.message is any string; it is kept as its list of words.     *)
(***************************************************************************)
Words == {"particle", "meaning", "hello"}

Queries == UNION { [1..n -> Words] : n \in 0..MaxQueryWords }

(***************************************************************************)
(* chat_with_ai, lines 29-33: the user_context built from current_user.    *)
(* Both keys are always present; the level of a user who has none is None. *)
(***************************************************************************)
UserContexts ==
    [ jlpt_level : {None, "N5", "N3"}, role : {"student", "teacher"} ]

\* dict.get(key, default): the default only stands in for a missing key
DictGet(d, key, default) ==
    IF key \in DOMAIN d THEN d[key] ELSE default

(***************************************************************************)
(* RAGService.enhance_query_with_context (lines 455-470): the f-string     *)
(* that wraps the query.                                                   *)
(***************************************************************************)
enhance_query_with_context(query, user_context) ==
    << "User Context:", "- JLPT Level:",
       DictGet(user_context, "jlpt_level", "N5"),
       "- Role:", DictGet(user_context, "role", "student"), "Query:" >>
    \o query
    \o << "Please provide an appropriate response considering the user's level and role." >>

(***************************************************************************)
(* RAGService.classify_query_type (lines 503-514), on the words of the     *)
(* query: the first keyword list with a word in the query decides.         *)
(***************************************************************************)
HasWord(query, ws) == \E k \in 1..Len(query) : query[k] \in ws

classify_query_type(query) ==
    IF HasWord(query, {"grammar", "particle", "verb", "conjugate"})
    THEN "grammar"
    ELSE IF HasWord(query, {"meaning", "translate", "vocabulary"})
    THEN "vocabulary"
    ELSE IF HasWord(query, {"practice", "exercise", "quiz"})
    THEN "practice"
    ELSE "general"

(***************************************************************************)
(* RAGService.generate_study_recommendations (lines 526-550); each         *)
(* recommendation is the list of the pieces of its text.                   *)
(***************************************************************************)
generate_study_recommendations(query, user_context) ==
    LET jlpt_level == DictGet(user_context, "jlpt_level", "N5")
    IN  IF classify_query_type(query) = "grammar"
        THEN << <<"Practice", jlpt_level, "grammar exercises">>,
                <<"Review particle usage patterns">>,
                <<"Try conjugation drills">> >>
        ELSE IF classify_query_type(query) = "vocabulary"
        THEN << <<"Study", jlpt_level, "vocabulary lists">>,
                <<"Practice with flashcards">>,
                <<"Read simple Japanese texts">> >>
        ELSE <<>>

\* A request before it arrives.  The text of its message and the profile of
\* its sender steer no branch of the handling; they are fixed per request
\* when the run starts.  handed is the argument chat_engine.chat was
\* called with, llm_calls the calls the engine made into the active LLM,
\* analytics how the request's background task ended, if it ran,
\* recommendations the "recommendations" of a result of the normal path.
NewRequest ==
    [ user |-> 0, history |-> <<>>, pc |-> "new", thread |-> "none",
      failed |-> "none", raised |-> FALSE, result |-> NoResult,
      http |-> "none",
      query |-> <<"hello">>,
      user_context |-> [jlpt_level |-> "N5", role |-> "student"],
      handed |-> <<>>, llm_calls |-> 0, analytics |-> "none",
      recommendations |-> <<>> ]

\* conversation_history[-n:]
LastN(h, n) == SubSeq(h, IF Len(h) > n THEN Len(h) - n + 1 ELSE 1, Len(h))

Turn(i, kind) == [req |-> i, kind |-> kind]

(***************************************************************************)
(* generate_response, lines 402-407: the memory.put calls made for the     *)
(* last five history entries, in order.                                    *)
(***************************************************************************)
RECURSIVE PutsOf(_, _)
PutsOf(i, h) ==
    IF h = <<>>
    THEN <<>>
    ELSE ( IF Head(h).message
           THEN <<Turn(i, "history_message")>>
           ELSE <<>> )
         \o ( IF Head(h).response
              THEN <<Turn(i, "history_response")>>
              ELSE <<>> )
         \o PutsOf(i, Tail(h))

HistoryPuts(i, h) == PutsOf(i, LastN(h, HistoryWindow))

(***************************************************************************)
(* The three results generate_response can return (lines 424-453).         *)
(***************************************************************************)
FullKeys ==
    {"response", "sources", "confidence", "grammar_points", "vocabulary",
     "recommendations", "jlpt_level", "context"}

ShortKeys == {"response", "sources", "confidence"}

EngineResult(s) ==
    [ response |-> IF s.chat_engine = "FallbackChatEngine"
                   THEN "fallback_response"
                   ELSE "engine_answer",
      confidence |-> PlaceholderConfidence,
      keys |-> FullKeys ]

SetupResult ==
    [response |-> "setting_up_apology", confidence |-> ZeroConfidence,
     keys |-> ShortKeys]

ErrorResult ==
    [response |-> "error_apology", confidence |-> ZeroConfidence,
     keys |-> ShortKeys]

(***************************************************************************)
(* generate_response's handler "except Exception" (lines 447-453): the     *)
(* exception of a failed step is swallowed and the apology returned.       *)
(***************************************************************************)
\* faulty variant: the handler logs and re-raises, as process_document does
OnException_Reraise(rq, step) ==
    [rq EXCEPT !.failed = step, !.raised = TRUE, !.result = NoResult]

OnException(rq, step) ==
    [rq EXCEPT !.failed = step, !.raised = FALSE, !.result = ErrorResult]

(***************************************************************************)
(* chat_with_ai after generate_response has returned or raised (lines      *)
(* 43-84): the ChatMessage is added and committed (44-59), the analytics   *)
(* task is added to the background tasks (62-67), and the ChatResponse is  *)
(* built from the result and from chat_message.id, which the session       *)
(* reloads after the commit (69-77).  An exception at any point becomes    *)
(* HTTP 500.  No await lies between, so this runs in one piece.            *)
(***************************************************************************)
Endings == {"ok", "commit_raises", "response_raises"}

AfterGenerate(i, rq, end) ==
    IF rq.raised \/ end = "commit_raises"
    THEN /\ reqs' = [reqs EXCEPT ![i] = [rq EXCEPT !.pc = "done",
                                                   !.http = "500"]]
         /\ UNCHANGED <<chatMessages, backgroundTasks>>
    ELSE /\ reqs' = [reqs EXCEPT ![i] =
                       [rq EXCEPT !.pc = "done",
                                  !.http = IF end = "ok" THEN "200"
                                           ELSE "500"]]
         /\ chatMessages' = chatMessages \cup
                { [ req |-> i, user |-> rq.user,
                    response |-> rq.result.response,
                    confidence |-> rq.result.confidence ] }
         /\ backgroundTasks' = backgroundTasks \cup {i}

(***************************************************************************)
(* Uploaded documents (schemas/rag.py DocumentUpload): a file name and a   *)
(* content.  documents[f] is the text of the file documents/<f>, a list of *)
(* the contents written into it; it is empty when the file is missing or   *)
(* empty.                                                                  *)
(***************************************************************************)
Contents == {"content_a", "content_b"}

DocLists == UNION { [1..n -> Filenames \X Contents] : n \in 0..MaxDocs }

\* which process_document call of a request fails, if any, and how
Failures(docs) ==
    { [at |-> 0, kind |-> "ok"] } \cup
    [ at : 1..Len(docs), kind : {"open_raises", "write_raises"} ]

\* an upload request before it arrives
NewUpload ==
    [ pc |-> "new", http |-> "none", reported |-> <<>>, failedAt |-> 0,
      calls |-> 0 ]

\* The record kept for each file name of the last process_document call
\* made for it: the content it was given, how the call ended, whether the
\* call before it had been given the same content and had succeeded, and
\* the text of the file before the call.
NoCall ==
    [ content |-> None, status |-> "none", repeated |-> FALSE,
      before |-> <<>> ]

(***************************************************************************)
(* process_document, lines 622-623: open(doc_path, 'w') truncates the file *)
(* and f.write stores the content.                                         *)
(***************************************************************************)
\* faulty variant: the file is opened for appending
WriteFile_Append(text, content) == text \o <<content>>

\* faulty variant: a file that exists is left as it is
WriteFile_KeepExisting(text, content) ==
    IF text = <<>> THEN <<content>> ELSE text

WriteFile(text, content) == <<content>>

(***************************************************************************)
(* process_document's handler (lines 632-634): log and re-raise.           *)
(***************************************************************************)
\* faulty variant: the error is swallowed and reported in the result
OnIngestError_ReportFailed(text) ==
    [text |-> text, raised |-> FALSE, status |-> "failed"]

OnIngestError(text) ==
    [text |-> text, raised |-> TRUE, status |-> None]

(***************************************************************************)
(* RAGService.process_document (lines 609-634) on the file it names: the   *)
(* text the file is left with, whether the call raised, and the status of  *)
(* the result.  mkdir or open may raise, leaving the file as it was;       *)
(* f.write or the close may raise after open has truncated the file.       *)
(* Neither the index nor any model is touched.                             *)
(***************************************************************************)
process_document(text, content, outcome) ==
    IF outcome = "open_raises"
    THEN OnIngestError(text)
    ELSE IF outcome = "write_raises"
    THEN OnIngestError(<<>>)
    ELSE [text |-> WriteFile(text, content), raised |-> FALSE,
          status |-> "processed"]

(***************************************************************************)
(* upload_documents, lines 218-226: the loop over the documents of one     *)
(* request, from document k on.  The call for document failAt fails in the *)
(* way kind says; an exception ends the loop.                              *)
(***************************************************************************)
RECURSIVE UploadLoop(_, _, _, _, _)
UploadLoop(docs, k, failAt, kind, st) ==
    IF k > Len(docs) \/ st.raised
    THEN st
    ELSE LET f == docs[k][1]
             c == docs[k][2]
             outcome == IF k = failAt THEN kind ELSE "ok"
             pd == process_document(st.documents[f], c, outcome)
             last == st.ingest[f]
         IN  UploadLoop(docs, k + 1, failAt, kind,
                [ documents |-> [st.documents EXCEPT ![f] = pd.text],
                  ingest |-> [st.ingest EXCEPT ![f] =
                     [ content |-> c,
                       status |-> IF outcome = "ok" THEN "processed"
                                  ELSE "failed",
                       repeated |-> /\ outcome = "ok"
                                    /\ last.status = "processed"
                                    /\ last.content = c,
                       before |-> st.documents[f] ]],
                  reported |-> IF pd.raised
                               THEN st.reported
                               ELSE Append(st.reported,
                                           [ filename |-> f,
                                             status |-> pd.status ]),
                  calls |-> st.calls + 1,
                  raised |-> pd.raised ])

(***************************************************************************)
(* The database behind the course, lesson, assignment and analytics        *)
(* routes: one table per model class, a table being a function from the    *)
(* primary keys in use to rows.  db.users holds the columns of User the    *)
(* routes read.  resp is the answer to the latest request of these routes, *)
(* inflight the enrollment requests that were routed to their handler,     *)
(* today the calendar day (datetime.now().date()), counted from 1.         *)
(***************************************************************************)
Roles == {"teacher", "student"}

\* last_login is <<>> (never) or <<day>>
NewUser(r) == [role |-> r, study_streak |-> 0, last_login |-> <<>>]

EmptyDatabase ==
    [ users |-> [u \in Users |-> NewUser("student")],
      courses |-> <<>>,
      lessons |-> <<>>, lesson_seq |-> 0,
      assignments |-> <<>>, assignment_seq |-> 0,
      enrollments |-> <<>>,
      submissions |-> <<>>,
      lesson_completions |-> <<>>,
      study_sessions |-> <<>>,
      learning_analytics |-> <<>>,
      weaknesses |-> <<>> ]

NoResponse ==
    [op |-> "none", user |-> 0, target |-> 0, status |-> "none",
     detail |-> "none"]

\* the answer to a request; a rejected request (HTTPException raised before
\* any commit) leaves the database as it was
Reply(op, u, x, st, detail) ==
    resp' = [op |-> op, user |-> u, target |-> x, status |-> st,
             detail |-> detail]

Reject(op, u, x, st, detail) ==
    /\ Reply(op, u, x, st, detail)
    /\ db' = db

\* db.add of a row under primary key id, db.delete of the row id
Put(table, id, row) ==
    [k \in DOMAIN table \cup {id} |-> IF k = id THEN row ELSE table[k]]

Delete(table, id) == [k \in DOMAIN table \ {id} |-> table[k]]

\* for field, value in data.dict(exclude_unset=True).items(): setattr(...)
Patch(row, data) ==
    [f \in DOMAIN row |-> IF f \in DOMAIN data THEN data[f] ELSE row[f]]

(***************************************************************************)
(* States before the service is constructed.                               *)
(***************************************************************************)
BlankService ==
    /\ phase = "import"
    /\ svc = Unconstructed
    /\ initLog = <<>>
    /\ memory = <<>>
    /\ chatMessages = {}
    /\ backgroundTasks = {}
    /\ lastStatus = NoStatus
    /\ documents = [f \in Filenames |-> <<>>]
    /\ ingest = [f \in Filenames |-> NoCall]

\* n chat requests and m upload requests will arrive
Blank(n, m) ==
    /\ BlankService
    /\ reqs = [i \in 1..n |-> NewRequest]
    /\ uploads = [r \in 1..m |-> NewUpload]
    /\ db = EmptyDatabase
    /\ resp = NoResponse
    /\ inflight = <<>>
    /\ today = 1

Init == env \in HealthyEnvs /\ Blank(MaxRequests, 0)

InitCall == env \in PlainEnvs /\ Blank(ServiceRequests, 0)

InitStartup == env \in Envs /\ Blank(0, 0)

InitService == env \in Envs /\ Blank(ServiceRequests, ServiceRequests)

InitUpload == env \in PlainEnvs /\ Blank(0, MaxUploads)

InitQuery ==
    /\ env \in PlainEnvs
    /\ BlankService
    /\ reqs \in [ 1..ServiceRequests ->
                    { [NewRequest EXCEPT !.query = q, !.user_context = c] :
                        q \in Queries, c \in UserContexts } ]
    /\ uploads = <<>>
    /\ db = EmptyDatabase
    /\ resp = NoResponse
    /\ inflight = <<>>
    /\ today = 1

(***************************************************************************)
(* rag_service = RAGService() (rag.py:17, rag_service.py:80-95)            *)
(***************************************************************************)
RAGService_init ==
    /\ phase = "import"
    /\ \E o \in InitOutcomes :
          /\ svc' = Construct(env, o)
          /\ initLog' = ConstructLog(env, o)
    /\ phase' = "serving"
    /\ UNCHANGED <<db, resp, inflight, today, env, memory, reqs, chatMessages, backgroundTasks,
                   lastStatus, documents, uploads, ingest>>

(***************************************************************************)
(* POST /chat, from the call of chat_with_ai to the first await that       *)
(* suspends it: generate_response enhances the query, puts the history     *)
(* into the memory buffer and hands chat_engine.chat to a worker thread    *)
(* (lines 397-415).  A put on a missing buffer raises; with no chat engine *)
(* the setting-up result is returned; in both cases chat_with_ai runs on   *)
(* to its end without suspending.  Requests are numbered as they arrive.   *)
(***************************************************************************)
ChatStart(i) ==
    /\ phase = "serving"
    /\ reqs[i].pc = "new"
    /\ \A j \in DOMAIN reqs : j < i => reqs[j].pc # "new"
    /\ \E u \in Users, h \in Histories, end \in Endings :
          LET rq == [reqs[i] EXCEPT !.user = u, !.history = h]
              puts == HistoryPuts(i, h)
          IN  IF puts # <<>> /\ svc.memory = None
              THEN /\ AfterGenerate(i, OnException(rq, "memory"), end)
                   /\ UNCHANGED memory
              ELSE /\ memory' = memory \o puts
                   /\ IF svc.chat_engine = None
                      THEN AfterGenerate(
                               i, [rq EXCEPT !.result = SetupResult], end)
                      ELSE /\ reqs' = [reqs EXCEPT ![i] =
                                         [rq EXCEPT
                                            !.pc = "awaiting",
                                            !.thread = "running",
                                            !.handed =
                                              enhance_query_with_context(
                                                rq.query, rq.user_context)]]
                           /\ UNCHANGED <<chatMessages, backgroundTasks>>
    /\ UNCHANGED <<db, resp, inflight, today, env, phase, svc, initLog, lastStatus, documents, uploads,
                   ingest>>

(***************************************************************************)
(* chat_engine.chat(enhanced_query) in the worker thread (lines 412-415).  *)
(* FallbackChatEngine.chat formats a string.  The LlamaIndex engine        *)
(* answers from the memory buffer it was given and, when it succeeds,      *)
(* appends the user message and its answer to it; any call into a model    *)
(* may raise; llm_calls counts the calls into the active LLM that          *)
(* returned.  The thread runs on when the request is cancelled.  An        *)
(* engine built without self.memory (line 364) keeps a buffer of its own,  *)
(* which generate_response never touches and which is not modelled.        *)
(***************************************************************************)
ChatEngineChat(i) ==
    /\ reqs[i].thread = "running"
    /\ \E ok \in BOOLEAN :
          IF ok \/ svc.chat_engine = "FallbackChatEngine"
          THEN /\ reqs' = [reqs EXCEPT
                            ![i].thread = "returned",
                            ![i].llm_calls =
                               IF svc.chat_engine = "FallbackChatEngine"
                               THEN 0
                               ELSE 1]
               /\ memory' =
                    IF svc.chat_engine = "CondensePlusContextChatEngine"
                       /\ svc.memory # None
                    THEN memory \o <<Turn(i, "user"), Turn(i, "assistant")>>
                    ELSE memory
          ELSE /\ reqs' = [reqs EXCEPT ![i].thread = "raised"]
               /\ UNCHANGED memory
    /\ UNCHANGED <<db, resp, inflight, today, env, phase, svc, initLog, chatMessages, backgroundTasks,
                   lastStatus, documents, uploads, ingest>>

(***************************************************************************)
(* The coroutine resumes after the worker thread (lines 419-453, then      *)
(* rag.py 43-84): the thread's exception, or one raised while the result   *)
(* is assembled, is caught by generate_response.                           *)
(***************************************************************************)
ChatResume(i) ==
    /\ reqs[i].pc = "awaiting"
    /\ reqs[i].thread \in {"returned", "raised"}
    /\ \E postOk \in BOOLEAN, end \in Endings :
          IF reqs[i].thread = "raised"
          THEN AfterGenerate(i, OnException(reqs[i], "engine"), end)
          ELSE IF ~postOk
          THEN AfterGenerate(i, OnException(reqs[i], "post"), end)
          ELSE AfterGenerate(
                   i,
                   [reqs[i] EXCEPT
                      !.result = EngineResult(svc),
                      !.recommendations =
                         generate_study_recommendations(
                            reqs[i].query, reqs[i].user_context)],
                   end)
    /\ UNCHANGED <<db, resp, inflight, today, env, phase, svc, initLog, memory, lastStatus, documents,
                   uploads, ingest>>

(***************************************************************************)
(* The request is cancelled while it awaits the worker thread:             *)
(* CancelledError is not an Exception, so neither generate_response nor    *)
(* chat_with_ai catches it, and nothing after the await runs.              *)
(***************************************************************************)
ChatCancel(i) ==
    /\ reqs[i].pc = "awaiting"
    /\ reqs' = [reqs EXCEPT ![i].pc = "done", ![i].http = "cancelled"]
    /\ UNCHANGED <<db, resp, inflight, today, env, phase, svc, initLog, memory, chatMessages,
                   backgroundTasks, lastStatus, documents, uploads, ingest>>

(***************************************************************************)
(* RAGService.update_user_analytics (lines 636-649), run as a background   *)
(* task: the framework runs the tasks of a request after it has sent the   *)
(* response the handler returned, and drops them when the handler raised.  *)
(* The body logs one line inside try / except Exception; whether or not    *)
(* the logging raises, the call returns.                                   *)
(***************************************************************************)
update_user_analytics(i) ==
    /\ i \in backgroundTasks
    /\ reqs[i].http = "200"
    /\ reqs[i].analytics = "none"
    /\ \E logOk \in BOOLEAN :
          reqs' = [reqs EXCEPT ![i].analytics =
                      IF logOk THEN "returned" ELSE "error_logged"]
    /\ UNCHANGED <<db, resp, inflight, today, env, phase, svc, initLog, memory, chatMessages,
                   backgroundTasks, lastStatus, documents, uploads, ingest>>

(***************************************************************************)
(* GET /system-status -> RAGService.get_system_status                      *)
(***************************************************************************)
get_system_status ==
    /\ phase = "serving"
    /\ lastStatus' = SystemStatus(svc)
    /\ UNCHANGED <<db, resp, inflight, today, env, phase, svc, initLog, memory, reqs, chatMessages,
                   backgroundTasks, documents, uploads, ingest>>

(***************************************************************************)
(* POST /upload-documents (rag.py 205-235).  The handler and               *)
(* process_document contain no await that suspends, so a request runs in   *)
(* one piece on the event loop; requests that are pending together run    *)
(* one after the other, and are numbered in the order they run.  A user    *)
(* who is no teacher is answered 403 before any document is looked at.     *)
(***************************************************************************)
upload_documents(r) ==
    /\ phase = "serving"
    /\ uploads[r].pc = "new"
    /\ \A j \in DOMAIN uploads : j < r => uploads[j].pc # "new"
    /\ \/ /\ uploads' = [uploads EXCEPT ![r] =
                           [NewUpload EXCEPT !.pc = "done", !.http = "403"]]
          /\ UNCHANGED <<documents, ingest>>
       \/ \E docs \in DocLists :
          \E fail \in Failures(docs) :
             LET st == UploadLoop(docs, 1, fail.at, fail.kind,
                                  [ documents |-> documents,
                                    ingest |-> ingest,
                                    reported |-> <<>>,
                                    calls |-> 0,
                                    raised |-> FALSE ])
             IN  /\ documents' = st.documents
                 /\ ingest' = st.ingest
                 /\ uploads' = [uploads EXCEPT ![r] =
                      [ pc |-> "done",
                        http |-> IF st.raised THEN "500" ELSE "200",
                        reported |-> IF st.raised THEN <<>>
                                     ELSE st.reported,
                        failedAt |-> fail.at,
                        calls |-> st.calls ]]
    /\ UNCHANGED <<db, resp, inflight, today, env, phase, svc, initLog, memory, reqs, chatMessages,
                   backgroundTasks, lastStatus>>

Next ==
    \/ RAGService_init
    \/ \E i \in DOMAIN reqs : ChatStart(i)
    \/ \E i \in DOMAIN reqs : ChatEngineChat(i)
    \/ \E i \in DOMAIN reqs : ChatResume(i)
    \/ \E i \in DOMAIN reqs : ChatCancel(i)

\* chat traffic on a service constructed in a healthy environment
Spec == Init /\ [][Next]_vars

\* one chat request on a service with nothing or with everything installed
SpecCall == InitCall /\ [][Next]_vars

NextAnalytics ==
    \/ Next
    \/ \E i \in DOMAIN reqs : update_user_analytics(i)

\* one chat request and the background task it leaves
SpecAnalytics == InitCall /\ [][NextAnalytics]_vars

\* the same, for every message text and every user profile
SpecQuery == InitQuery /\ [][Next]_vars

NextStartup ==
    \/ RAGService_init
    \/ get_system_status

\* construction in every environment, then status calls
SpecStartup == InitStartup /\ [][NextStartup]_vars

NextService ==
    \/ Next
    \/ get_system_status
    \/ \E r \in DOMAIN uploads : upload_documents(r)

\* construction in every environment, then every operation of the service
SpecService == InitService /\ [][NextService]_vars

NextUpload ==
    \/ RAGService_init
    \/ \E r \in DOMAIN uploads : upload_documents(r)

\* uploads on a constructed service
SpecUpload == InitUpload /\ [][NextUpload]_vars

(***************************************************************************)
(* Properties of generate_response and of the chat endpoint, checked       *)
(* under Spec (C1 and C12 under SpecCall, C11 under SpecQuery, C19 under   *)
(* SpecAnalytics).                                                         *)
(***************************************************************************)
Answered(i) == reqs[i].pc = "done" /\ reqs[i].http # "cancelled"

\* a step inside generate_response raised an exception for request i
StepFailed(i) ==
    \/ reqs[i].failed # "none"
    \/ reqs[i].thread = "raised"
    \/ HistoryPuts(i, reqs[i].history) # <<>> /\ svc.memory = None

\* C1: whenever a step inside generate_response fails (a memory put, the
\* chat-engine call, the assembly of the result), generate_response does
\* not raise and returns the fixed apology with confidence 0.0.
C1_FailureReturnsApology ==
    \A i \in DOMAIN reqs :
        Answered(i) /\ StepFailed(i) =>
            /\ ~reqs[i].raised
            /\ reqs[i].result.response = "error_apology"
            /\ reqs[i].result.confidence = 0

C1_Witness ==
    \E i \in DOMAIN reqs :
        /\ Answered(i)
        /\ reqs[i].thread = "raised"
        /\ reqs[i].failed = "engine"
        /\ reqs[i].result = ErrorResult

\* C2: a generate_response call whose generation step failed has left no
\* turn of its exchange, the supplied history included, in the memory.
C2_FailedCallLeavesMemory ==
    \A i \in DOMAIN reqs :
        reqs[i].thread = "raised" =>
            \A k \in 1..Len(memory) : memory[k].req # i

\* C3: while the chat engine answers a request from the memory buffer, the
\* buffer holds only turns put there by requests of the same user.
C3_MemoryPerSession ==
    \A i \in DOMAIN reqs :
        /\ reqs[i].thread = "running"
        /\ svc.chat_engine = "CondensePlusContextChatEngine"
        /\ svc.memory # None
        => \A k \in 1..Len(memory) :
               reqs[memory[k].req].user = reqs[i].user

OnMockPath(s) ==
    \/ s.embedding_model = "MockEmbedding"
    \/ s.llm_model = "MockLLM"
    \/ s.chat_engine = "FallbackChatEngine"

\* C4: a result produced with the mock embedding, the mock LLM or the
\* fallback chat engine carries confidence 0.0.
C4_MockPathZeroConfidence ==
    \A i \in DOMAIN reqs :
        Answered(i) /\ ~reqs[i].raised /\ OnMockPath(svc) =>
            reqs[i].result.confidence = 0

\* C5: every ChatMessage in the database belongs to a request whose
\* generation completed without a failure.
C5_OnlySuccessfulPersisted ==
    \A m \in chatMessages :
        /\ ~StepFailed(m.req)
        /\ m.response # "error_apology"

\* C10: without LlamaIndex (no memory buffer, fallback chat engine) a
\* request that carries a non-empty conversation history is answered and
\* does not end in the error apology.
C10_DegradedModeAnswers ==
    \A i \in DOMAIN reqs :
        /\ Answered(i)
        /\ ~env.LLAMAINDEX_AVAILABLE
        /\ svc.memory = None
        /\ svc.chat_engine = "FallbackChatEngine"
        /\ reqs[i].history # <<>>
        => reqs[i].result.response # "error_apology"

\* C11: when a request arrives with an empty conversation history, the
\* query handed to the chat engine (retrieval and generation) is the
\* caller's original query, unchanged.
C11_EmptyHistoryQueryUnchanged ==
    \A i \in DOMAIN reqs :
        reqs[i].thread # "none" /\ reqs[i].history = <<>> =>
            reqs[i].handed = reqs[i].query

RequiredKeys ==
    {"response", "sources", "confidence", "grammar_points", "vocabulary",
     "recommendations", "context"}

\* C12: every result generate_response returns, on the normal and on every
\* degraded path, has the fields response, sources, confidence,
\* grammar_points, vocabulary, recommendations and context, and a
\* confidence between 0 and 1.
C12_ResultHasAllFields ==
    \A i \in DOMAIN reqs :
        Answered(i) /\ ~reqs[i].raised =>
            /\ RequiredKeys \subseteq reqs[i].result.keys
            /\ reqs[i].result.confidence \in 0..100

\* C13: the turns that requests of one user leave in the memory buffer
\* stand in the order in which the requests were issued: no turn of an
\* earlier request follows a turn of a later one.
C13_MemoryInIssueOrder ==
    \A k, l \in 1..Len(memory) :
        /\ k < l
        /\ reqs[memory[k].req].user = reqs[memory[l].req].user
        => memory[k].req <= memory[l].req

\* C17: on a service that found no grammar data to index, a request in
\* which nothing else failed is answered without an apology and its answer
\* was generated by a call into the active LLM.
C17_EmptyIndexStillGenerates ==
    \A i \in DOMAIN reqs :
        /\ Answered(i)
        /\ env.LLAMAINDEX_AVAILABLE
        /\ svc.japanese_grammar_data = 0
        /\ svc.index = None
        /\ reqs[i].failed = "none"
        => /\ reqs[i].result.response
                 \notin {"error_apology", "setting_up_apology"}
           /\ reqs[i].llm_calls > 0

\* C19: the analytics task of a request is scheduled only once its
\* ChatMessage is committed, is scheduled for every request answered 200
\* and for no request answered 500, and leaves the result of the request
\* as it was.
C19_AnalyticsAfterSuccessOnly ==
    \A i \in DOMAIN reqs :
        /\ i \in backgroundTasks =>
               /\ \E m \in chatMessages : m.req = i
               /\ reqs[i].result # NoResult
               /\ reqs[i].analytics # "raised"
        /\ reqs[i].http = "200" => i \in backgroundTasks
        /\ reqs[i].http = "500" => i \notin backgroundTasks

\* the text (a list of pieces) names level N5
NamesN5(text) == \E k \in 1..Len(text) : text[k] = "N5"

\* C25: for a user with no JLPT level the enhanced query handed to the
\* chat engine names N5, and so do the study recommendations of a grammar
\* or vocabulary question.
C25_NoLevelMeansN5 ==
    \A i \in DOMAIN reqs :
        reqs[i].user_context.jlpt_level = None =>
            /\ reqs[i].thread # "none" => NamesN5(reqs[i].handed)
            /\ reqs[i].result.response \in {"engine_answer",
                                             "fallback_response"}
               /\ classify_query_type(reqs[i].query)
                     \in {"grammar", "vocabulary"}
               => \E k \in 1..Len(reqs[i].recommendations) :
                      NamesN5(reqs[i].recommendations[k])

\* C26: once construction has completed, whatever failed while the grammar
\* data was loaded and indexed, chat_engine is set and no request is
\* answered with the setting-up apology.
C26_ChatEngineAlwaysSet ==
    phase = "serving" =>
        /\ svc.chat_engine # None
        /\ \A i \in DOMAIN reqs :
               reqs[i].result.response # "setting_up_apology"

(***************************************************************************)
(* Properties of document ingestion, checked under SpecUpload.             *)
(***************************************************************************)
\* C14: every document for which an upload reported status processed is
\* part of the vector index: an index exists and holds the document.
C14_ProcessedIsIndexed ==
    \A r \in DOMAIN uploads :
        \A k \in 1..Len(uploads[r].reported) :
            uploads[r].reported[k].status = "processed" =>
                /\ svc.index # None
                /\ [ source |-> "documents",
                     id |-> uploads[r].reported[k].filename ]
                       \in IndexEntries(svc)

C16_WritesSerialized ==
    \A f \in Filenames :
        /\ documents[f] = <<>> \/ \E c \in Contents : documents[f] = <<c>>
        /\ ingest[f].status = "processed" =>
               documents[f] = <<ingest[f].content>>

C16_Witness ==
    \E f \in Filenames :
        /\ \A r \in DOMAIN uploads :
               /\ uploads[r].http = "200"
               /\ \E k \in 1..Len(uploads[r].reported) :
                      uploads[r].reported[k].filename = f
        /\ Cardinality(DOMAIN uploads) > 1
        /\ ingest[f].status = "processed"
        /\ ingest[f].before # <<>>
        /\ ingest[f].before # documents[f]

\* C20: an upload in which a process_document call failed made exactly one
\* call for each document up to the failing one and none after it, was
\* answered HTTP 500, and reported no result.
C20_IngestionFailureSurfaces ==
    \A r \in DOMAIN uploads :
        uploads[r].pc = "done" /\ uploads[r].failedAt > 0 =>
            /\ uploads[r].http = "500"
            /\ uploads[r].reported = <<>>
            /\ uploads[r].calls = uploads[r].failedAt

C20_Witness ==
    \E r \in DOMAIN uploads, f \in Filenames :
        /\ uploads[r].pc = "done"
        /\ uploads[r].failedAt = 1
        /\ uploads[r].calls = 1
        /\ uploads[r].http = "500"
        /\ ingest[f].status = "failed"
        /\ documents[f] = <<>>
        /\ ingest[f].before # <<>>

(***************************************************************************)
(* Properties of construction and of get_system_status, checked under      *)
(* SpecStartup (C8 under SpecService).                                     *)
(***************************************************************************)
Attempted(provider) ==
    \E k \in 1..Len(initLog) : initLog[k].provider = provider

IsMockEmbedding(s) == s.embedding_model = "MockEmbedding"

IsMockLLM(s) == s.llm_model = "MockLLM"

\* two services alike in everything but that one runs a mock provider where
\* the other runs a real one
DifferOnlyInProvider(s, t) ==
    /\ s.index = t.index
    /\ s.chat_engine = t.chat_engine
    /\ s.memory = t.memory
    /\ s.japanese_grammar_data = t.japanese_grammar_data
    /\ \/ IsMockEmbedding(s) # IsMockEmbedding(t)
       \/ IsMockLLM(s) # IsMockLLM(t)

\* C6: the status a caller was given differs from the status of every
\* service that could have been constructed alike except for running a
\* mock provider in place of a real one, or a real one in place of a mock.
C6_StatusTellsMockFromReal ==
    lastStatus # NoStatus =>
        \A e \in Envs, o \in InitOutcomes :
            DifferOnlyInProvider(svc, Construct(e, o)) =>
                SystemStatus(Construct(e, o)) # lastStatus

\* C7: when the HuggingFace embedding is importable but fails to
\* initialize and the OpenAI embedding is configured, the OpenAI embedding
\* is attempted, and is the active provider if it initializes.
C7_EmbeddingChainAdvances ==
    /\ phase = "serving"
    /\ env.LLAMAINDEX_AVAILABLE
    /\ env.HUGGINGFACE_EMBEDDINGS_AVAILABLE
    /\ ~env.hfEmbeddingInits
    /\ env.OPENAI_API_KEY
    /\ env.OPENAI_AVAILABLE
    => /\ Attempted("OpenAIEmbedding")
       /\ env.openaiEmbeddingInits =>
              svc.embedding_model = "OpenAIEmbedding"

\* A hosted LLM is configured when the LlamaIndex core and its own class
\* were imported and its API key is set.
LLMConfigured(e, p) ==
    /\ e.LLAMAINDEX_AVAILABLE
    /\ IF p = "HuggingFaceLLM"
       THEN e.HUGGINGFACE_API_KEY /\ e.HUGGINGFACE_LLM_AVAILABLE
       ELSE e.OPENAI_API_KEY /\ e.OPENAI_AVAILABLE

LLMInits(e, p) ==
    IF p = "HuggingFaceLLM" THEN e.hfLLMInits ELSE e.openaiLLMInits

LLMChain == <<"HuggingFaceLLM", "OpenAI">>

\* the first provider of the chain that is configured and initializes,
\* else the mock responder
FirstOfChain(e) ==
    LET good == { k \in 1..Len(LLMChain) :
                    LLMConfigured(e, LLMChain[k]) /\ LLMInits(e, LLMChain[k]) }
    IN  IF good = {}
        THEN "MockLLM"
        ELSE LLMChain[CHOOSE k \in good : \A j \in good : k <= j]

\* the provider among ps whose constructor succeeded during construction
ChosenAtInit(ps) ==
    { initLog[k].provider :
        k \in { j \in 1..Len(initLog) :
                  initLog[j].ok /\ initLog[j].provider \in ps } }

C9_StatusAfterConstruction ==
    lastStatus # NoStatus =>
        /\ lastStatus.models_loaded.embedding_model
        /\ lastStatus.models_loaded.llm_model
        /\ lastStatus.models_loaded.index_created
               <=> Attempted("VectorStoreIndex")

C9_Witness ==
    /\ lastStatus # NoStatus
    /\ env.LLAMAINDEX_AVAILABLE
    /\ env.HUGGINGFACE_EMBEDDINGS_AVAILABLE
    /\ ~env.hfEmbeddingInits
    /\ svc.embedding_model = "MockEmbedding"
    /\ lastStatus.models_loaded.index_created
    /\ svc.chat_engine = "FallbackChatEngine"

(***************************************************************************)
(* Course, lesson and assignment management (routes/courses.py,            *)
(* lessons.py, assignments.py).  Every handler is an async function with   *)
(* no await in its body: it runs from its first query to its commit with   *)
(* no other handler in between, so each is one action.                     *)
(***************************************************************************)
Titles == {"title_a", "title_b"}

\* the bodies of PUT requests: the fields that are set
CourseUpdates == [title : {"title_b"}] \cup [is_active : BOOLEAN]
LessonUpdates == [title : {"title_b"}]
AssignmentUpdates == [max_attempts : 1..MaxAttempts]

\* Depends(get_current_active_teacher): the caller is a teacher, or the
\* request is turned away before the handler runs
get_current_active_teacher(u) == db.users[u].role = "teacher"

NotATeacher(op, u, x) == Reject(op, u, x, "403", "Not enough permissions")

NotCourseTeacher_MissingOnly(course_id, u) ==
    course_id \notin DOMAIN db.courses

\* not course or course.teacher_id != current_user.id
NotCourseTeacher(course_id, u) ==
    \/ course_id \notin DOMAIN db.courses
    \/ db.courses[course_id].teacher_id # u

create_course(u) ==
    /\ Len(db.courses) < MaxCourses
    /\ IF ~get_current_active_teacher(u)
       THEN NotATeacher("create_course", u, 0)
       ELSE /\ db' = [db EXCEPT !.courses =
                         Append(@, [teacher_id |-> u, is_active |-> TRUE,
                                    title |-> "title_a"])]
            /\ Reply("create_course", u, Len(db.courses) + 1, "200", "ok")
    /\ UNCHANGED <<ragVars, inflight, today>>

update_course(u, course_id, course_data) ==
    /\ IF ~get_current_active_teacher(u)
       THEN NotATeacher("update_course", u, course_id)
       ELSE IF course_id \notin DOMAIN db.courses
       THEN Reject("update_course", u, course_id, "404", "Course not found")
       ELSE IF db.courses[course_id].teacher_id # u
       THEN Reject("update_course", u, course_id, "403",
                   "Not authorized to update this course")
       ELSE /\ db' = [db EXCEPT !.courses[course_id] =
                                    Patch(@, course_data)]
            /\ Reply("update_course", u, course_id, "200", "ok")
    /\ UNCHANGED <<ragVars, inflight, today>>

delete_course(u, course_id) ==
    /\ IF ~get_current_active_teacher(u)
       THEN NotATeacher("delete_course", u, course_id)
       ELSE IF course_id \notin DOMAIN db.courses
       THEN Reject("delete_course", u, course_id, "404", "Course not found")
       ELSE IF db.courses[course_id].teacher_id # u
       THEN Reject("delete_course", u, course_id, "403",
                   "Not authorized to delete this course")
       ELSE /\ db' = [db EXCEPT !.courses[course_id].is_active = FALSE]
            /\ Reply("delete_course", u, course_id, "200",
                     "Course deleted successfully")
    /\ UNCHANGED <<ragVars, inflight, today>>

create_lesson(u, course_id) ==
    /\ db.lesson_seq < MaxLessons
    /\ IF ~get_current_active_teacher(u)
       THEN NotATeacher("create_lesson", u, 0)
       ELSE IF NotCourseTeacher(course_id, u)
       THEN Reject("create_lesson", u, 0, "403",
                   "Not authorized to create lessons for this course")
       ELSE /\ db' = [db EXCEPT
                        !.lesson_seq = @ + 1,
                        !.lessons = Put(@, db.lesson_seq + 1,
                                        [course_id |-> course_id,
                                         title |-> "title_a"])]
            /\ Reply("create_lesson", u, db.lesson_seq + 1, "200", "ok")
    /\ UNCHANGED <<ragVars, inflight, today>>

update_lesson(u, lesson_id, lesson_data) ==
    /\ IF ~get_current_active_teacher(u)
       THEN NotATeacher("update_lesson", u, lesson_id)
       ELSE IF lesson_id \notin DOMAIN db.lessons
       THEN Reject("update_lesson", u, lesson_id, "404", "Lesson not found")
       ELSE IF NotCourseTeacher(db.lessons[lesson_id].course_id, u)
       THEN Reject("update_lesson", u, lesson_id, "403",
                   "Not authorized to update this lesson")
       ELSE /\ db' = [db EXCEPT !.lessons[lesson_id] =
                                    Patch(@, lesson_data)]
            /\ Reply("update_lesson", u, lesson_id, "200", "ok")
    /\ UNCHANGED <<ragVars, inflight, today>>

delete_lesson(u, lesson_id) ==
    /\ IF ~get_current_active_teacher(u)
       THEN NotATeacher("delete_lesson", u, lesson_id)
       ELSE IF lesson_id \notin DOMAIN db.lessons
       THEN Reject("delete_lesson", u, lesson_id, "404", "Lesson not found")
       ELSE IF NotCourseTeacher(db.lessons[lesson_id].course_id, u)
       THEN Reject("delete_lesson", u, lesson_id, "403",
                   "Not authorized to delete this lesson")
       ELSE /\ db' = [db EXCEPT !.lessons = Delete(@, lesson_id)]
            /\ Reply("delete_lesson", u, lesson_id, "200",
                     "Lesson deleted successfully")
    /\ UNCHANGED <<ragVars, inflight, today>>

create_assignment(u, course_id, max_attempts) ==
    /\ db.assignment_seq < MaxAssignments
    /\ IF ~get_current_active_teacher(u)
       THEN NotATeacher("create_assignment", u, 0)
       ELSE IF NotCourseTeacher(course_id, u)
       THEN Reject("create_assignment", u, 0, "403",
                   "Not authorized to create assignments for this course")
       ELSE /\ db' = [db EXCEPT
                        !.assignment_seq = @ + 1,
                        !.assignments = Put(@, db.assignment_seq + 1,
                                            [course_id |-> course_id,
                                             max_attempts |-> max_attempts])]
            /\ Reply("create_assignment", u, db.assignment_seq + 1, "200",
                     "ok")
    /\ UNCHANGED <<ragVars, inflight, today>>

update_assignment(u, assignment_id, assignment_data) ==
    /\ IF ~get_current_active_teacher(u)
       THEN NotATeacher("update_assignment", u, assignment_id)
       ELSE IF assignment_id \notin DOMAIN db.assignments
       THEN Reject("update_assignment", u, assignment_id, "404",
                   "Assignment not found")
       ELSE IF NotCourseTeacher(db.assignments[assignment_id].course_id, u)
       THEN Reject("update_assignment", u, assignment_id, "403",
                   "Not authorized to update this assignment")
       ELSE /\ db' = [db EXCEPT !.assignments[assignment_id] =
                                    Patch(@, assignment_data)]
            /\ Reply("update_assignment", u, assignment_id, "200", "ok")
    /\ UNCHANGED <<ragVars, inflight, today>>

delete_assignment(u, assignment_id) ==
    /\ IF ~get_current_active_teacher(u)
       THEN NotATeacher("delete_assignment", u, assignment_id)
       ELSE IF assignment_id \notin DOMAIN db.assignments
       THEN Reject("delete_assignment", u, assignment_id, "404",
                   "Assignment not found")
       ELSE IF NotCourseTeacher(db.assignments[assignment_id].course_id, u)
       THEN Reject("delete_assignment", u, assignment_id, "403",
                   "Not authorized to delete this assignment")
       ELSE /\ db' = [db EXCEPT !.assignments = Delete(@, assignment_id)]
            /\ Reply("delete_assignment", u, assignment_id, "200",
                     "Assignment deleted successfully")
    /\ UNCHANGED <<ragVars, inflight, today>>

\* the platform before any course exists; the RAG service plays no part
NoRagTraffic ==
    /\ env \in {e \in PlainEnvs : ~e.LLAMAINDEX_AVAILABLE}
    /\ BlankService
    /\ reqs = <<>>
    /\ uploads = <<>>

InitCourses ==
    /\ NoRagTraffic
    /\ \E roles \in [Users -> Roles] :
          db = [EmptyDatabase EXCEPT
                  !.users = [u \in Users |-> NewUser(roles[u])]]
    /\ resp = NoResponse
    /\ inflight = <<>>
    /\ today = 1

NextCourses ==
    \/ \E u \in Users : create_course(u)
    \/ \E u \in Users, c \in 1..MaxCourses, d \in CourseUpdates :
          update_course(u, c, d)
    \/ \E u \in Users, c \in 1..MaxCourses : delete_course(u, c)
    \/ \E u \in Users, c \in 1..MaxCourses : create_lesson(u, c)
    \/ \E u \in Users, l \in 1..MaxLessons, d \in LessonUpdates :
          update_lesson(u, l, d)
    \/ \E u \in Users, l \in 1..MaxLessons : delete_lesson(u, l)
    \/ \E u \in Users, c \in 1..MaxCourses, n \in 1..MaxAttempts :
          create_assignment(u, c, n)
    \/ \E u \in Users, a \in 1..MaxAssignments, d \in AssignmentUpdates :
          update_assignment(u, a, d)
    \/ \E u \in Users, a \in 1..MaxAssignments : delete_assignment(u, a)

\* teachers and students calling the course-management routes
SpecCourses == InitCourses /\ [][NextCourses]_vars

(***************************************************************************)
(* Properties of course management, checked under SpecCourses.             *)
(***************************************************************************)
ManageOps ==
    {"update_course", "delete_course", "update_lesson", "delete_lesson",
     "update_assignment", "delete_assignment"}

\* the table an operation works on
TableOf(d, op) ==
    IF op \in {"update_course", "delete_course"} THEN d.courses
    ELSE IF op \in {"update_lesson", "delete_lesson"} THEN d.lessons
    ELSE d.assignments

\* u is the teacher who owns the course that the target x of op is, or
\* belongs to
OwningTeacher(d, u, op, x) ==
    /\ x \in DOMAIN TableOf(d, op)
    /\ LET c == IF op \in {"update_course", "delete_course"}
                THEN x ELSE TableOf(d, op)[x].course_id
       IN  /\ c \in DOMAIN d.courses
           /\ d.courses[c].teacher_id = u
    /\ d.users[u].role = "teacher"

existing_enrollment_Inactive(u, course_id) ==
    { k \in DOMAIN db.enrollments :
        /\ db.enrollments[k].student_id = u
        /\ db.enrollments[k].course_id = course_id
        /\ ~db.enrollments[k].is_active }

\* the rows of the query for the caller's active enrollment in the course
existing_enrollment(u, course_id) ==
    { k \in DOMAIN db.enrollments :
        /\ db.enrollments[k].student_id = u
        /\ db.enrollments[k].course_id = course_id
        /\ db.enrollments[k].is_active }

enroll_in_course(u, course_id) ==
    /\ IF ~( /\ course_id \in DOMAIN db.courses
             /\ db.courses[course_id].is_active )
       THEN Reject("enroll_in_course", u, course_id, "404",
                   "Course not found")
       ELSE IF existing_enrollment(u, course_id) # {}
       THEN Reject("enroll_in_course", u, course_id, "400",
                   "Already enrolled in this course")
       ELSE /\ db' = [db EXCEPT !.enrollments =
                         Append(@, [student_id |-> u,
                                    course_id |-> course_id,
                                    is_active |-> TRUE])]
            /\ Reply("enroll_in_course", u, course_id, "200", "ok")
    /\ UNCHANGED <<ragVars, today>>

unenroll_from_course(u, course_id) ==
    /\ IF existing_enrollment(u, course_id) = {}
       THEN Reject("unenroll_from_course", u, course_id, "404",
                   "Enrollment not found")
       ELSE /\ \E k \in existing_enrollment(u, course_id) :
                  db' = [db EXCEPT !.enrollments[k].is_active = FALSE]
            /\ Reply("unenroll_from_course", u, course_id, "200",
                     "Unenrolled successfully")
    /\ UNCHANGED <<ragVars, today>>

\* A request before it arrives.  overlapped: a request for the same
\* operation, student and course was waiting for its handler when this one
\* was routed.
NewCall ==
    [op |-> "none", user |-> 0, course |-> 0, pc |-> "new",
     status |-> "none", detail |-> "none", overlapped |-> FALSE]

EnrollOps == {"enroll_in_course", "unenroll_from_course"}

\* the request is routed: Depends(get_current_user), Depends(get_db)
Admit(i, op, u, course_id) ==
    /\ inflight[i].pc = "new"
    /\ i > 1 => inflight[i - 1].pc # "new"
    /\ inflight' =
          [inflight EXCEPT ![i] =
             [@ EXCEPT !.op = op, !.user = u, !.course = course_id,
                       !.pc = "admitted",
                       !.overlapped =
                          \E j \in DOMAIN inflight :
                             /\ inflight[j].pc = "admitted"
                             /\ inflight[j].op = op
                             /\ inflight[j].user = u
                             /\ inflight[j].course = course_id]]
    /\ UNCHANGED <<ragVars, db, resp, today>>

Finish(i) ==
    inflight' = [inflight EXCEPT ![i] =
                   [@ EXCEPT !.pc = "done", !.status = resp'.status,
                             !.detail = resp'.detail]]

RunEnroll(i) ==
    /\ inflight[i].pc = "admitted"
    /\ inflight[i].op = "enroll_in_course"
    /\ enroll_in_course(inflight[i].user, inflight[i].course)
    /\ Finish(i)

RunUnenroll(i) ==
    /\ inflight[i].pc = "admitted"
    /\ inflight[i].op = "unenroll_from_course"
    /\ unenroll_from_course(inflight[i].user, inflight[i].course)
    /\ Finish(i)

\* one teacher with an open course each, the others students
SeededCourses ==
    [EmptyDatabase EXCEPT
       !.users = [u \in Users |->
                    NewUser(IF u = 1 THEN "teacher" ELSE "student")],
       !.courses = [c \in 1..MaxCourses |->
                      [teacher_id |-> 1, is_active |-> TRUE,
                       title |-> "title_a"]]]

InitEnroll ==
    /\ NoRagTraffic
    /\ db = SeededCourses
    /\ resp = NoResponse
    /\ inflight = [i \in 1..MaxCalls |-> NewCall]
    /\ today = 1

NextEnroll ==
    \/ \E i \in DOMAIN inflight, op \in EnrollOps, u \in Users,
          c \in 1..MaxCourses : Admit(i, op, u, c)
    \/ \E i \in DOMAIN inflight : RunEnroll(i)
    \/ \E i \in DOMAIN inflight : RunUnenroll(i)

\* enroll and unenroll requests in every order and overlap
SpecEnroll == InitEnroll /\ [][NextEnroll]_vars

(***************************************************************************)
(* Properties of enrollment, checked under SpecEnroll.                     *)
(***************************************************************************)
ActiveEnrollments(d, u, c) ==
    { k \in DOMAIN d.enrollments :
        /\ d.enrollments[k].student_id = u
        /\ d.enrollments[k].course_id = c
        /\ d.enrollments[k].is_active }

\* C22: a student never has two active enrollments in a course, and an
\* enroll request handled while the student has an active enrollment in
\* the course is rejected with 'Already enrolled in this course' and adds
\* no row, whatever requests overlap.
C22_OneActiveEnrollment ==
    /\ [](\A u \in Users, c \in 1..MaxCourses :
             Cardinality(ActiveEnrollments(db, u, c)) <= 1)
    /\ [][ \A i \in DOMAIN inflight :
             ( /\ inflight[i].pc = "admitted"
               /\ inflight'[i].pc = "done"
               /\ inflight[i].op = "enroll_in_course"
               /\ ActiveEnrollments(db, inflight[i].user,
                                    inflight[i].course) # {} )
             => /\ inflight'[i].status = "400"
                /\ inflight'[i].detail = "Already enrolled in this course"
                /\ db' = db ]_vars

\* of two overlapping enroll requests of one student for one course, the
\* one handled second was rejected, and the student is enrolled once
C22_Witness ==
    \E i \in DOMAIN inflight :
        /\ inflight[i].pc = "done"
        /\ inflight[i].op = "enroll_in_course"
        /\ inflight[i].overlapped
        /\ inflight[i].detail = "Already enrolled in this course"
        /\ Cardinality(ActiveEnrollments(db, inflight[i].user,
                                         inflight[i].course)) = 1

(***************************************************************************)
(* Student work: submit_assignment (routes/assignments.py 193-270) and     *)
(* mark_lesson_complete (routes/lessons.py 169-225).  Neither body has an  *)
(* await.  A query ended by .first() with no ORDER BY can yield any        *)
(* matching row.                                                           *)
(***************************************************************************)
\* the rows of the query for the caller's submissions to the assignment
existing_submission(u, assignment_id) ==
    { k \in DOMAIN db.submissions :
        /\ db.submissions[k].assignment_id = assignment_id
        /\ db.submissions[k].student_id = u }

CreateSubmission(u, assignment_id, attempt_number) ==
    /\ db' = [db EXCEPT !.submissions =
                Append(@, [assignment_id |-> assignment_id,
                           student_id |-> u,
                           attempt_number |-> attempt_number])]
    /\ Reply("submit_assignment", u, assignment_id, "200", "ok")

submit_assignment(u, assignment_id) ==
    /\ Len(db.submissions) < MaxSubmissions
    /\ IF assignment_id \notin DOMAIN db.assignments
       THEN Reject("submit_assignment", u, assignment_id, "404",
                   "Assignment not found")
       ELSE IF existing_enrollment(
                  u, db.assignments[assignment_id].course_id) = {}
       THEN Reject("submit_assignment", u, assignment_id, "403",
                   "Not enrolled in this course")
       ELSE IF existing_submission(u, assignment_id) = {}
       THEN CreateSubmission(u, assignment_id, 1)
       ELSE \E k \in existing_submission(u, assignment_id) :
               LET max_attempts ==
                      db.assignments[assignment_id].max_attempts
                   attempt_number == db.submissions[k].attempt_number + 1
               IN  IF max_attempts = 1
                   THEN Reject("submit_assignment", u, assignment_id,
                               "400", "Assignment already submitted")
                   ELSE IF attempt_number > max_attempts
                   THEN Reject("submit_assignment", u, assignment_id,
                               "400", "Maximum attempts exceeded")
                   ELSE CreateSubmission(u, assignment_id, attempt_number)
    /\ UNCHANGED <<ragVars, inflight, today>>

\* the rows of the query for the caller's completion of the lesson
completion(u, lesson_id) ==
    { k \in DOMAIN db.lesson_completions :
        /\ db.lesson_completions[k].student_id = u
        /\ db.lesson_completions[k].lesson_id = lesson_id }

\* the bodies of completion requests: {} and {"is_completed": b}
CompletionData == {<<>>} \cup [is_completed : BOOLEAN]

\* the assignments to the completion row (lessons.py 212-220)
UpdateCompletion(row, completion_data) ==
    LET is_completed == DictGet(completion_data, "is_completed", TRUE)
    IN  [row EXCEPT
           !.is_completed = is_completed,
           !.completed_at = IF is_completed /\ row.completed_at = None
                            THEN "now" ELSE row.completed_at]

mark_lesson_complete(u, lesson_id, completion_data) ==
    /\ IF lesson_id \notin DOMAIN db.lessons
       THEN Reject("mark_lesson_complete", u, lesson_id, "404",
                   "Lesson not found")
       ELSE IF existing_enrollment(u, db.lessons[lesson_id].course_id) = {}
       THEN Reject("mark_lesson_complete", u, lesson_id, "403",
                   "Not enrolled in this course")
       ELSE /\ IF completion(u, lesson_id) = {}
               THEN db' = [db EXCEPT !.lesson_completions =
                             Append(@, UpdateCompletion(
                                          [student_id |-> u,
                                           lesson_id |-> lesson_id,
                                           is_completed |-> FALSE,
                                           completed_at |-> None],
                                          completion_data))]
               ELSE \E k \in completion(u, lesson_id) :
                       db' = [db EXCEPT !.lesson_completions[k] =
                                UpdateCompletion(@, completion_data)]
            /\ Reply("mark_lesson_complete", u, lesson_id, "200", "ok")
    /\ UNCHANGED <<ragVars, inflight, today>>

\* every course with one lesson and one assignment
InitStudent ==
    /\ NoRagTraffic
    /\ \E n \in 1..MaxAttempts :
          db = [SeededCourses EXCEPT
                  !.lessons = [c \in 1..MaxCourses |->
                                 [course_id |-> c, title |-> "title_a"]],
                  !.lesson_seq = MaxCourses,
                  !.assignments = [c \in 1..MaxCourses |->
                                     [course_id |-> c,
                                      max_attempts |-> n]],
                  !.assignment_seq = MaxCourses]
    /\ resp = NoResponse
    /\ inflight = <<>>
    /\ today = 1

NextStudent ==
    \/ \E u \in Users, c \in 1..MaxCourses :
          /\ Len(db.enrollments) < MaxEnrollments
          /\ enroll_in_course(u, c)
          /\ UNCHANGED inflight
    \/ \E u \in Users, c \in 1..MaxCourses :
          unenroll_from_course(u, c) /\ UNCHANGED inflight
    \/ \E u \in Users, a \in 1..MaxCourses : submit_assignment(u, a)
    \/ \E u \in Users, l \in 1..MaxCourses, d \in CompletionData :
          mark_lesson_complete(u, l, d)

\* students enrolling, submitting assignments and completing lessons
SpecStudent == InitStudent /\ [][NextStudent]_vars

(***************************************************************************)
(* Properties of student work, checked under SpecStudent.                  *)
(***************************************************************************)
\* C23: a student never has more submissions for an assignment than the
\* assignment's max_attempts.
C23_SubmissionsWithinMaxAttempts ==
    \A u \in Users, a \in DOMAIN db.assignments :
        Cardinality({ k \in DOMAIN db.submissions :
                        /\ db.submissions[k].assignment_id = a
                        /\ db.submissions[k].student_id = u })
           <= db.assignments[a].max_attempts

\* C29: a student has at most one completion record for a lesson, and the
\* record's completed_at is set only if its is_completed is true.
C29_OneCompletionPerLesson ==
    /\ \A j, k \in DOMAIN db.lesson_completions :
          ( /\ db.lesson_completions[j].student_id
                  = db.lesson_completions[k].student_id
            /\ db.lesson_completions[j].lesson_id
                  = db.lesson_completions[k].lesson_id ) => j = k
    /\ \A k \in DOMAIN db.lesson_completions :
          db.lesson_completions[k].completed_at # None
             => db.lesson_completions[k].is_completed

(***************************************************************************)
(* Study sessions (routes/analytics.py 339-379, analytics_service.py).     *)
(* An accuracy (correct / total) * 100 is kept as the exact fraction       *)
(* num / den; on sessions of up to six questions and records of fewer than *)
(* twenty attempts the comparisons below give what the double arithmetic   *)
(* of the code gives.  The awaits of track_study_session and of            *)
(* process_study_session are on coroutines that never suspend, so the      *)
(* handler runs as one step.  A StudySession row is kept by the columns    *)
(* later requests read, student_id and started_at; started_at is the day   *)
(* the row is created.                                                     *)
(***************************************************************************)
Rate(correct, total) == [num |-> 100 * correct, den |-> total]

\* the accuracy_rate of a session without questions: None
NoRate == [num |-> 0, den |-> 0]

\* rate < k, rate > k
Below(rate, k) == rate.num < k * rate.den
Above(rate, k) == rate.num > k * rate.den

\* a > b + k, a < b - k
AboveBy(a, b, k) == a.num * b.den > b.num * a.den + k * a.den * b.den
BelowBy(a, b, k) == a.num * b.den < b.num * a.den - k * a.den * b.den

Concepts == {"particles"}

Students == 1..NumStudents

\* concepts_studied: no concept, or one
ConceptLists == {<<>>} \cup { <<concept>> : concept \in Concepts }

\* _update_daily_analytics (analytics_service.py 39-79): the day's record
\* of the student is created or found, and its session count raised
update_daily_analytics(d, session) ==
    LET daily == { k \in DOMAIN d.learning_analytics :
                     /\ d.learning_analytics[k].student_id
                           = session.student_id
                     /\ d.learning_analytics[k].date = session.started_at }
    IN  IF daily = {}
        THEN [d EXCEPT !.learning_analytics =
                Append(@, [student_id |-> session.student_id,
                           date |-> session.started_at,
                           sessions_count |-> 1])]
        ELSE LET k == CHOOSE k \in daily : TRUE
             IN  [d EXCEPT !.learning_analytics[k].sessions_count = @ + 1]

\* _generate_weakness_recommendations (185-218): the advice that depends
\* on the accuracy
generate_weakness_recommendations(accuracy_rate) ==
    IF Below(accuracy_rate, BasicsThreshold)
    THEN "Start with basic concepts and build gradually"
    ELSE IF Below(accuracy_rate, WeaknessThreshold)
    THEN "Focus on consistent practice"
    ELSE None

\* _update_weakness_record, the update of an existing record (137-151)
UpdateWeakness(weakness, accuracy_rate, total_attempts, correct_attempts) ==
    LET total == weakness.total_attempts + total_attempts
        correct == weakness.correct_attempts + correct_attempts
        previous_accuracy == Rate(correct, total)
    IN  [weakness EXCEPT
           !.total_attempts = total,
           !.correct_attempts = correct,
           !.accuracy_rate = Rate(correct, total),
           !.improvement_trend =
              IF AboveBy(accuracy_rate, previous_accuracy, TrendMargin)
              THEN "Improving"
              ELSE IF BelowBy(accuracy_rate, previous_accuracy, TrendMargin)
              THEN "Declining"
              ELSE "Stable"]

\* _update_weakness_record, the end (153-163)
FinishWeakness(weakness, accuracy_rate) ==
    LET advised == [weakness EXCEPT
                      !.recommended_actions =
                         generate_weakness_recommendations(accuracy_rate)]
    IN  IF Above(advised.accuracy_rate, ResolvedThreshold)
        THEN [advised EXCEPT !.is_active = FALSE, !.resolved_at = "now"]
        ELSE advised

\* _update_weakness_record (102-167)
update_weakness_record(d, student_id, concept_name, accuracy_rate, total_attempts, correct_attempts) ==
    LET found == { k \in DOMAIN d.weaknesses :
                     /\ d.weaknesses[k].student_id = student_id
                     /\ d.weaknesses[k].concept_name = concept_name }
    IN  IF found = {}
        THEN [d EXCEPT !.weaknesses =
                Append(@, FinishWeakness(
                             [student_id |-> student_id,
                              concept_name |-> concept_name,
                              total_attempts |-> total_attempts,
                              correct_attempts |-> correct_attempts,
                              accuracy_rate |-> accuracy_rate,
                              improvement_trend |-> None,
                              recommended_actions |-> None,
                              is_active |-> TRUE,
                              resolved_at |-> None],
                             accuracy_rate))]
        ELSE LET k == CHOOSE k \in found : TRUE
             IN  [d EXCEPT !.weaknesses[k] =
                    FinishWeakness(
                       UpdateWeakness(@, accuracy_rate, total_attempts,
                                      correct_attempts),
                       accuracy_rate)]

IsWeakSession_Always(accuracy_rate) == TRUE

\* _analyze_weaknesses: session.accuracy_rate < 70
IsWeakSession(accuracy_rate) == Below(accuracy_rate, WeaknessThreshold)

RECURSIVE ForEachConcept(_, _, _)
\* for concept in session.concepts_studied: ... (89-97), from the j-th on
ForEachConcept(d, session, j) ==
    IF j > Len(session.concepts_studied)
    THEN d
    ELSE ForEachConcept(
            update_weakness_record(
               d, session.student_id, session.concepts_studied[j],
               session.accuracy_rate, session.questions_answered,
               session.correct_answers),
            session, j + 1)

\* _analyze_weaknesses (81-100)
analyze_weaknesses(d, session) ==
    IF session.concepts_studied = <<>> \/ session.accuracy_rate = NoRate
    THEN d
    ELSE IF IsWeakSession(session.accuracy_rate)
    THEN ForEachConcept(d, session, 1)
    ELSE d

\* _update_engagement_metrics (250-278)
update_engagement_metrics(d, session, day) ==
    LET user == d.users[session.student_id]
        yesterday == day - 1
        yesterday_session ==
           \E k \in DOMAIN d.study_sessions :
              /\ d.study_sessions[k].student_id = session.student_id
              /\ d.study_sessions[k].started_at = yesterday
    IN  IF yesterday_session \/ user.last_login = <<yesterday>>
        THEN [d EXCEPT !.users[session.student_id].study_streak = @ + 1]
        ELSE [d EXCEPT !.users[session.student_id].study_streak = 1]

\* AnalyticsService.process_study_session (18-37)
process_study_session(d, session, day) ==
    update_engagement_metrics(
       analyze_weaknesses(update_daily_analytics(d, session), session),
       session, day)

track_study_session(u, questions_answered, correct_answers, concepts_studied) ==
    /\ Len(db.study_sessions) < MaxSessions
    /\ LET study_session ==
              [student_id |-> u,
               started_at |-> today,
               questions_answered |-> questions_answered,
               correct_answers |-> correct_answers,
               concepts_studied |-> concepts_studied,
               accuracy_rate |->
                  IF questions_answered > 0
                  THEN Rate(correct_answers, questions_answered)
                  ELSE NoRate]
           added == [db EXCEPT !.study_sessions =
                       Append(@, [student_id |-> u,
                                  started_at |-> today])]
       IN  /\ db' = process_study_session(added, study_session, today)
           /\ Reply("track_study_session", u, Len(db.study_sessions) + 1,
                    "200", "Study session tracked successfully")
    /\ UNCHANGED <<ragVars, inflight, today>>

\* midnight
NextDay ==
    /\ today < MaxDays
    /\ today' = today + 1
    /\ UNCHANGED <<ragVars, db, resp, inflight>>

\* students who logged in the day before the first day, or never
InitStudy ==
    /\ NoRagTraffic
    /\ \E login \in {<<>>, <<0>>} :
          db = [EmptyDatabase EXCEPT
                  !.users = [u \in Users |->
                               [NewUser("student") EXCEPT
                                  !.last_login = login]]]
    /\ resp = NoResponse
    /\ inflight = <<>>
    /\ today = 1

NextStudy ==
    \/ \E u \in Students, q \in 0..MaxQuestions, cs \in ConceptLists :
          \E c \in 0..q : track_study_session(u, q, c, cs)
    \/ NextDay

\* students tracking study sessions over several days
SpecStudy == InitStudy /\ [][NextStudy]_vars

(***************************************************************************)
(* Properties of study tracking, checked under SpecStudy.                  *)
(***************************************************************************)
\* the trend of a session accuracy against a record's accuracy
TrendAgainst(accuracy_rate, recorded) ==
    IF AboveBy(accuracy_rate, recorded, TrendMargin) THEN "Improving"
    ELSE IF BelowBy(accuracy_rate, recorded, TrendMargin) THEN "Declining"
    ELSE "Stable"

\* C24: when a session updates an existing weakness record, the record's
\* improvement_trend is the trend of the session's accuracy against the
\* accuracy the record had before the update.
C24_TrendAgainstPreviousAccuracy ==
    [][ \A u \in Students, q \in 1..MaxQuestions, concept \in Concepts :
          \A c \in 0..q, k \in DOMAIN db.weaknesses :
             ( /\ track_study_session(u, q, c, <<concept>>)
               /\ IsWeakSession(Rate(c, q))
               /\ db.weaknesses[k].student_id = u
               /\ db.weaknesses[k].concept_name = concept )
             => db'.weaknesses[k].improvement_trend
                   = TrendAgainst(Rate(c, q), db.weaknesses[k].accuracy_rate)
      ]_vars

C28_StreakOncePerDay ==
    [][ \A u \in Students :
          ( /\ Len(db'.study_sessions) = Len(db.study_sessions) + 1
            /\ db'.study_sessions[Len(db'.study_sessions)].student_id = u
            /\ \E k \in DOMAIN db.study_sessions :
                  /\ db.study_sessions[k].student_id = u
                  /\ db.study_sessions[k].started_at = today )
          => db'.users[u].study_streak = db.users[u].study_streak ]_vars

====
